---- MODULE Spec2Model ----
(***************************************************************************)
(* A model of t5x/train_state.py: the FlaxOptimTrainState value type, its  *)
(* factory `create`, its functional operations, and the TrainState         *)
(* protocol it inherits from.  A training driver holds one live instance   *)
(* (`cur`), replaces it with the result of each successful operation, and  *)
(* may hold the mutable mapping returned by state_dict() (`snap`).         *)
(*                                                                         *)
(* Trees (params, param_states, grads, params_axes) are functions from     *)
(* key names to leaves.  A flax_mutables object is [frozen, map]: a        *)
(* FrozenDict is immutable, a plain dict is a mutable object shared by     *)
(* reference.  The caller keeps a snapshot until its next state-changing   *)
(* operation other than restore_state.                                     *)
(***************************************************************************)
EXTENDS Integers, Sequences, FiniteSets, TLC

VARIABLES pc, cur, last, calls, snap, proj

vars == <<pc, cur, last, calls, snap, proj>>

(* ------------------------------ bounds -------------------------------- *)

\* Cap on the step counter in the guards of the driver's actions.
MaxStep == 2

\* Cap on the caller's writes to one snapshot mapping.
MaxWrites == 1

\* Tensor leaves are abstracted to one bit.
Leaf == {0, 1}
Steps == 0 .. MaxStep

PKeys == {"w", "b"}
AKeys == {"w_axes", "b_axes"}
MKeys == {"batch_stats", "cache"}
MVals == {1, 2}
AxisNames == {<<"model">>, <<"embed", "mlp">>}

TreesOver(K, V) == UNION {[D -> V] : D \in SUBSET K}

EmptyMap == [k \in {} |-> 0]

(* ---------------------------- value helpers --------------------------- *)

\* Optional[...] = None is [present |-> FALSE].
NoneValue == [present |-> FALSE]

Some(x) == [present |-> TRUE, value |-> x]

\* flax.core.freeze: an immutable copy of a mapping.
freeze(m) == [frozen |-> TRUE, map |-> m]

\* flax.core.unfreeze: a fresh plain dict with the contents of xs.
unfreeze(xs) == xs.map

EMPTY_DICT == freeze(EmptyMap)

\* FrozenDict.pop(key): the mapping without the key, and the key's value.
pop(xs, key) ==
  [rest |-> [k \in (DOMAIN xs) \ {key} |-> xs[k]], value |-> xs[key]]

\* The outcome of a call: a returned value or a raised error, with the
\* collaborator calls made on the way.
Return(v, cs) == [ok |-> TRUE, value |-> v, calls |-> cs]

Raise(e, cs) == [ok |-> FALSE, err |-> e, calls |-> cs]

(* ------------- collaborators: flax.optim and partitioning -------------- *)

\* flax.linen.partitioning.get_axis_names: each key loses its "_axes"
\* suffix and each AxisMetadata leaf becomes the tuple of its names.
StripAxes(k) ==
  CASE k = "w_axes" -> "w"
    [] k = "b_axes" -> "b"
    [] OTHER -> k

get_axis_names(params_axes) ==
  [k \in {StripAxes(a) : a \in DOMAIN params_axes} |->
     params_axes[CHOOSE a \in DOMAIN params_axes : StripAxes(a) = k]]

\* OptimizerDef.create(params): step 0 and one state leaf per parameter.
OptimizerDef_create(optimizer_def, params) ==
  [optimizer_def |-> optimizer_def,
   state |-> [step |-> 0, param_states |-> [k \in DOMAIN params |-> 0]],
   target |-> params]

\* OptimizerDef.set_param_axes(axis_names): installs the names on the
\* definition.
OptimizerDef_set_param_axes(optimizer_def, axis_names) ==
  [optimizer_def EXCEPT !.param_axes = Some(axis_names)]

\* Optimizer.apply_gradient(grads, learning_rate): the update rule needs
\* grads and param_states shaped like the target; it updates every leaf and
\* adds one to the step.
Optimizer_apply_gradient(opt, grads, learning_rate) ==
  IF DOMAIN grads # DOMAIN opt.target
     \/ DOMAIN opt.state.param_states # DOMAIN opt.target
  THEN Raise("ValueError", <<>>)
  ELSE Return(
         [opt EXCEPT
            !.target = [k \in DOMAIN opt.target |->
                          (opt.target[k] + learning_rate * grads[k]) % 2],
            !.state = [step |-> opt.state.step + 1,
                       param_states |->
                         [k \in DOMAIN opt.target |->
                            (opt.state.param_states[k] + grads[k]) % 2]]],
         <<>>)

\* Optimizer.state_dict(): a fresh nested plain mapping.
Optimizer_state_dict(opt) ==
  [target |-> opt.target,
   state |-> [step |-> opt.state.step,
              param_states |-> opt.state.param_states]]

\* flax.serialization.from_state_dict on a mapping: the target's keys, the
\* state's leaves; a key of the target missing from the state is an error.
RestorableTree(target, state) == DOMAIN target \subseteq DOMAIN state

from_state_dict(target, state) == [k \in DOMAIN target |-> state[k]]

\* Optimizer.restore_state(state_dict).
Optimizer_restore_state(opt, sd) ==
  IF ~({"target", "state"} \subseteq DOMAIN sd)
  THEN Raise("KeyError", <<>>)
  ELSE IF DOMAIN sd["state"] # {"step", "param_states"}
  THEN Raise("ValueError", <<>>)
  ELSE IF ~RestorableTree(opt.target, sd["target"])
          \/ ~RestorableTree(opt.state.param_states,
                             sd["state"]["param_states"])
  THEN Raise("KeyError", <<>>)
  ELSE Return(
         [opt EXCEPT
            !.target = from_state_dict(opt.target, sd["target"]),
            !.state = [step |-> sd["state"]["step"],
                       param_states |->
                         from_state_dict(opt.state.param_states,
                                         sd["state"]["param_states"])]],
         <<>>)

\* Optimizer.replace(target=params).
Optimizer_replace_target(opt, params) == [opt EXCEPT !.target = params]

\* OptimizerDef.derive_logical_axes(optimizer, axis_names): the optimizer
\* with axis names in place of tensors and no step.
OptimizerDef_derive_logical_axes(opt, axis_names) ==
  [optimizer_def |-> opt.optimizer_def,
   state |-> [step |-> NoneValue, param_states |-> axis_names],
   target |-> axis_names]

(* ----------------------- FlaxOptimTrainState --------------------------- *)

\* The dataclass: _optimizer, params_axes (default None), flax_mutables
\* (default EMPTY_DICT).
FlaxOptimTrainState(optimizer, params_axes, flax_mutables) ==
  [optimizer |-> optimizer,
   params_axes |-> params_axes,
   flax_mutables |-> flax_mutables]

step(self) == self.optimizer.state.step

params(self) == self.optimizer.target

param_states(self) == self.optimizer.state.param_states

\* bool(mapping): a mapping is true when it has a key.
Truthy(xs) == DOMAIN xs.map # {}


\* create without the missing-axes check: the axes are installed when the
\* model emits them and skipped otherwise.
create_unchecked(optimizer_def, model_variables) ==
  IF "params" \notin DOMAIN model_variables
  THEN Raise("KeyError", <<>>)
  ELSE
    LET split == pop(model_variables, "params")
        other_variables == split.rest
        has_axes == "params_axes" \in DOMAIN other_variables
        params_axes == IF has_axes
                       THEN Some(other_variables["params_axes"])
                       ELSE NoneValue
        flax_mutables == IF has_axes
                         THEN pop(other_variables, "params_axes").rest
                         ELSE other_variables
        installs == optimizer_def.set_param_axes /\ params_axes.present
        installed == IF installs
                     THEN OptimizerDef_set_param_axes(
                            optimizer_def, get_axis_names(params_axes.value))
                     ELSE optimizer_def
    IN Return(FlaxOptimTrainState(
                OptimizerDef_create(installed, split.value),
                params_axes, freeze(flax_mutables)),
              IF installs THEN <<"set_param_axes", "create">>
              ELSE <<"create">>)

\* create that keeps the axis metadata only for an optimizer definition with
\* set_param_axes.
create_axes_if_supported(optimizer_def, model_variables) ==
  IF "params" \notin DOMAIN model_variables
  THEN Raise("KeyError", <<>>)
  ELSE
    LET split == pop(model_variables, "params")
        other_variables == split.rest
        has_axes == "params_axes" \in DOMAIN other_variables
        params_axes == IF has_axes
                       THEN Some(other_variables["params_axes"])
                       ELSE NoneValue
        flax_mutables == IF has_axes
                         THEN pop(other_variables, "params_axes").rest
                         ELSE other_variables
    IN
      IF optimizer_def.set_param_axes /\ ~params_axes.present
      THEN Raise("ValueError", <<>>)
      ELSE IF optimizer_def.set_param_axes
      THEN Return(FlaxOptimTrainState(
                    OptimizerDef_create(
                      OptimizerDef_set_param_axes(
                        optimizer_def, get_axis_names(params_axes.value)),
                      split.value),
                    params_axes, freeze(flax_mutables)),
                  <<"set_param_axes", "create">>)
      ELSE Return(FlaxOptimTrainState(
                    OptimizerDef_create(optimizer_def, split.value),
                    NoneValue, freeze(flax_mutables)),
                  <<"create">>)

\* create that hands every collection left after 'params' to flax_mutables.
create_axes_in_mutables(optimizer_def, model_variables) ==
  IF "params" \notin DOMAIN model_variables
  THEN Raise("KeyError", <<>>)
  ELSE
    LET split == pop(model_variables, "params")
        other_variables == split.rest
        has_axes == "params_axes" \in DOMAIN other_variables
        params_axes == IF has_axes
                       THEN Some(other_variables["params_axes"])
                       ELSE NoneValue
    IN
      IF optimizer_def.set_param_axes /\ ~params_axes.present
      THEN Raise("ValueError", <<>>)
      ELSE
        LET installed ==
              IF optimizer_def.set_param_axes
              THEN OptimizerDef_set_param_axes(
                     optimizer_def, get_axis_names(params_axes.value))
              ELSE optimizer_def
        IN Return(FlaxOptimTrainState(
                    OptimizerDef_create(installed, split.value),
                    params_axes, freeze(other_variables)),
                  IF optimizer_def.set_param_axes
                  THEN <<"set_param_axes", "create">>
                  ELSE <<"create">>)

\* create that builds the optimizer first and installs the axis names
\* afterwards.
create_then_set_axes(optimizer_def, model_variables) ==
  IF "params" \notin DOMAIN model_variables
  THEN Raise("KeyError", <<>>)
  ELSE
    LET split == pop(model_variables, "params")
        other_variables == split.rest
        has_axes == "params_axes" \in DOMAIN other_variables
        params_axes == IF has_axes
                       THEN Some(other_variables["params_axes"])
                       ELSE NoneValue
        flax_mutables == IF has_axes
                         THEN pop(other_variables, "params_axes").rest
                         ELSE other_variables
    IN
      IF optimizer_def.set_param_axes /\ ~params_axes.present
      THEN Raise("ValueError", <<>>)
      ELSE Return(FlaxOptimTrainState(
                    OptimizerDef_create(optimizer_def, split.value),
                    params_axes, freeze(flax_mutables)),
                  IF optimizer_def.set_param_axes
                  THEN <<"create", "set_param_axes">>
                  ELSE <<"create">>)

create(optimizer_def, model_variables) ==
  IF "params" \notin DOMAIN model_variables
  THEN Raise("KeyError", <<>>)
  ELSE
    LET split == pop(model_variables, "params")
        other_variables == split.rest
        has_axes == "params_axes" \in DOMAIN other_variables
        params_axes == IF has_axes
                       THEN Some(other_variables["params_axes"])
                       ELSE NoneValue
        flax_mutables == IF has_axes
                         THEN pop(other_variables, "params_axes").rest
                         ELSE other_variables
    IN
      IF optimizer_def.set_param_axes /\ ~params_axes.present
      THEN Raise("ValueError", <<>>)
      ELSE
        LET axis_names == get_axis_names(params_axes.value)
            installed == IF optimizer_def.set_param_axes
                         THEN OptimizerDef_set_param_axes(optimizer_def,
                                                          axis_names)
                         ELSE optimizer_def
            cs == IF optimizer_def.set_param_axes
                  THEN <<"set_param_axes", "create">>
                  ELSE <<"create">>
        IN Return(FlaxOptimTrainState(
                    OptimizerDef_create(installed, split.value),
                    params_axes, freeze(flax_mutables)),
                  cs)


\* state_dict that forgets the flax_mutables entry.
state_dict_without_mutables(self) == Optimizer_state_dict(self.optimizer)

\* state_dict that always writes the 'flax_mutables' entry.
state_dict_always_mutables(self) ==
  Optimizer_state_dict(self.optimizer)
    @@ [flax_mutables |-> unfreeze(self.flax_mutables)]

state_dict(self) ==
  LET sd == Optimizer_state_dict(self.optimizer)
  IN IF Truthy(self.flax_mutables)
     THEN sd @@ [flax_mutables |-> unfreeze(self.flax_mutables)]
     ELSE sd


\* apply_gradient that steps the optimizer twice.
apply_gradient_twice(self, grads, learning_rate, flax_mutables) ==
  LET r1 == Optimizer_apply_gradient(self.optimizer, grads, learning_rate)
      r == IF r1.ok
           THEN Optimizer_apply_gradient(r1.value, grads, learning_rate)
           ELSE r1
      fm == IF flax_mutables.present THEN flax_mutables.value
            ELSE EMPTY_DICT
  IN IF r.ok
     THEN Return([self EXCEPT !.optimizer = r.value, !.flax_mutables = fm],
                 <<"apply_gradient", "apply_gradient">>)
     ELSE Raise(r.err, <<"apply_gradient">>)

\* apply_gradient that merges the argument into the receiver's mutables.
apply_gradient_merging(self, grads, learning_rate, flax_mutables) ==
  LET r == Optimizer_apply_gradient(self.optimizer, grads, learning_rate)
      fm == IF flax_mutables.present
            THEN freeze(flax_mutables.value.map @@ self.flax_mutables.map)
            ELSE self.flax_mutables
  IN IF r.ok
     THEN Return([self EXCEPT !.optimizer = r.value, !.flax_mutables = fm],
                 <<"apply_gradient">>)
     ELSE Raise(r.err, <<"apply_gradient">>)

\* flax_mutables is the keyword argument: absent, the default EMPTY_DICT.
apply_gradient(self, grads, learning_rate, flax_mutables) ==
  LET r == Optimizer_apply_gradient(self.optimizer, grads, learning_rate)
      fm == IF flax_mutables.present THEN flax_mutables.value
            ELSE EMPTY_DICT
  IN IF r.ok
     THEN Return([self EXCEPT !.optimizer = r.value, !.flax_mutables = fm],
                 <<"apply_gradient">>)
     ELSE Raise(r.err, <<"apply_gradient">>)


\* replace_params that builds a new optimizer from the new params.
replace_params_recreated(self, new_params) ==
  Return([self EXCEPT
            !.optimizer = OptimizerDef_create(self.optimizer.optimizer_def,
                                              new_params)],
         <<"create">>)

replace_params(self, new_params) ==
  Return([self EXCEPT
            !.optimizer = Optimizer_replace_target(self.optimizer,
                                                   new_params)],
         <<"replace">>)


\* restore_state that builds a new instance instead of replacing fields of
\* the receiver: params_axes falls back to its default.
restore_state_rebuilt(self, sd) ==
  LET r == Optimizer_restore_state(self.optimizer, sd)
  IN IF r.ok
     THEN Return(FlaxOptimTrainState(
                   r.value, NoneValue,
                   IF "flax_mutables" \in DOMAIN sd
                   THEN freeze(sd["flax_mutables"])
                   ELSE EMPTY_DICT),
                 <<"restore_state">>)
     ELSE Raise(r.err, <<"restore_state">>)

\* restore_state that takes the snapshot's target as it is.
restore_state_raw_target(self, sd) ==
  LET r == Optimizer_restore_state(self.optimizer, sd)
  IN IF r.ok
     THEN Return([self EXCEPT
                    !.optimizer = Optimizer_replace_target(r.value,
                                                           sd["target"]),
                    !.flax_mutables =
                      IF "flax_mutables" \in DOMAIN sd
                      THEN freeze(sd["flax_mutables"])
                      ELSE EMPTY_DICT],
                 <<"restore_state">>)
     ELSE Raise(r.err, <<"restore_state">>)

\* restore_state that keeps the snapshot's own flax_mutables dict.
restore_state_unfrozen(self, sd) ==
  LET r == Optimizer_restore_state(self.optimizer, sd)
  IN IF r.ok
     THEN Return([self EXCEPT
                    !.optimizer = r.value,
                    !.flax_mutables =
                      IF "flax_mutables" \in DOMAIN sd
                      THEN [frozen |-> FALSE, map |-> sd["flax_mutables"]]
                      ELSE EMPTY_DICT],
                 <<"restore_state">>)
     ELSE Raise(r.err, <<"restore_state">>)

\* restore_state that swallows the optimizer's failure and restores what it
\* can.
restore_state_lenient(self, sd) ==
  LET r == Optimizer_restore_state(self.optimizer, sd)
  IN Return([self EXCEPT
               !.optimizer = IF r.ok THEN r.value ELSE @,
               !.flax_mutables =
                 IF "flax_mutables" \in DOMAIN sd
                 THEN freeze(sd["flax_mutables"])
                 ELSE EMPTY_DICT],
            <<"restore_state">>)

\* restore_state that keeps the receiver's flax_mutables when the snapshot
\* has none.
restore_state_keeping_mutables(self, sd) ==
  LET r == Optimizer_restore_state(self.optimizer, sd)
  IN IF r.ok
     THEN Return([self EXCEPT
                    !.optimizer = r.value,
                    !.flax_mutables =
                      IF "flax_mutables" \in DOMAIN sd
                      THEN freeze(sd["flax_mutables"])
                      ELSE @],
                 <<"restore_state">>)
     ELSE Raise(r.err, <<"restore_state">>)

restore_state(self, sd) ==
  LET r == Optimizer_restore_state(self.optimizer, sd)
  IN IF r.ok
     THEN Return([self EXCEPT
                    !.optimizer = r.value,
                    !.flax_mutables =
                      IF "flax_mutables" \in DOMAIN sd
                      THEN freeze(sd["flax_mutables"])
                      ELSE EMPTY_DICT],
                 <<"restore_state">>)
     ELSE Raise(r.err, <<"restore_state">>)


\* replace_step that writes the step at the top level of the mapping.
replace_step_top_level(self, new_step) ==
  LET sd == state_dict(self)
      written == [step |-> new_step] @@ sd
      r == restore_state(self, written)
  IN [r EXCEPT !.calls = <<"state_dict">> \o r.calls]

replace_step(self, new_step) ==
  LET sd == state_dict(self)
      written == [sd EXCEPT !["state"]["step"] = new_step]
      r == restore_state(self, written)
  IN [r EXCEPT !.calls = <<"state_dict">> \o r.calls]

\* as_logical_axes that derives without asking whether the optimizer
\* definition has derive_logical_axes.
as_logical_axes_unguarded(self) ==
  IF ~self.params_axes.present
  THEN Raise("AssertionError", <<>>)
  ELSE Return(Some(FlaxOptimTrainState(
                     OptimizerDef_derive_logical_axes(
                       self.optimizer,
                       get_axis_names(self.params_axes.value)),
                     NoneValue, EMPTY_DICT)),
              <<"derive_logical_axes">>)

\* as_logical_axes that swaps the optimizer into a copy of the receiver.
as_logical_axes_replacing(self) ==
  IF ~self.optimizer.optimizer_def.derive_logical_axes
  THEN Raise("ValueError", <<>>)
  ELSE IF ~self.params_axes.present
  THEN Raise("AssertionError", <<>>)
  ELSE Return(Some([self EXCEPT
                      !.optimizer =
                        OptimizerDef_derive_logical_axes(
                          self.optimizer,
                          get_axis_names(self.params_axes.value))]),
              <<"derive_logical_axes">>)

as_logical_axes(self) ==
  IF ~self.optimizer.optimizer_def.derive_logical_axes
  THEN Raise("ValueError", <<>>)
  ELSE IF ~self.params_axes.present
  THEN Raise("AssertionError", <<>>)
  ELSE Return(Some(FlaxOptimTrainState(
                     OptimizerDef_derive_logical_axes(
                       self.optimizer,
                       get_axis_names(self.params_axes.value)),
                     NoneValue, EMPTY_DICT)),
              <<"derive_logical_axes">>)

\* TrainState.to_logical_axes: the protocol's method, which the concrete
\* class inherits without overriding; its body is `...`.
to_logical_axes(self) == Return(NoneValue, <<>>)

(* ------------------- the receiver after a call ------------------------- *)

\* What the instance a method was called on is once the call has returned,
\* for a caller that kept a reference to it. The dataclass is frozen, so a
\* method reaches the receiver's fields only by writing into a mapping the
\* receiver holds; the only writes in the class are the two item
\* assignments of state_dict and replace_step.

\* state_dict: the item assignment goes to the mapping
\* self._optimizer.state_dict() has just built, and what it stores is the
\* copy unfreeze makes.
state_dict_receiver(self) == self

\* restore_state: reads the snapshot, freezes a copy of its flax_mutables
\* and builds the result with self.replace.
restore_state_receiver(self, sd) == self

\* apply_gradient: binds a local and builds the result with self.replace.
apply_gradient_receiver(self, grads, learning_rate, flax_mutables) == self

\* replace_params: self._optimizer.replace and self.replace build new
\* values.
replace_params_receiver(self, new_params) == self

\* replace_step with state_dict() handing out the optimizer's own state
\* mapping: the write of the step lands in the receiver.
replace_step_receiver_written(self, new_step) ==
  [self EXCEPT !.optimizer.state.step = new_step]

\* replace_step: takes a snapshot, writes the step into the snapshot and
\* restores from it.
replace_step_receiver(self, new_step) ==
  LET snapshotted == state_dict_receiver(self)
      written == [state_dict(self) EXCEPT !["state"]["step"] = new_step]
  IN restore_state_receiver(snapshotted, written)

\* as_logical_axes: reads the optimizer and the axis metadata and builds a
\* new instance.
as_logical_axes_receiver(self) == self

\* to_logical_axes: the body is `...`.
to_logical_axes_receiver(self) == self

(* ------------------------------ inputs --------------------------------- *)

\* Optimizer definitions: with or without set_param_axes and
\* derive_logical_axes; no axis names installed yet.
OptimizerDefs ==
  [set_param_axes : BOOLEAN, derive_logical_axes : BOOLEAN,
   param_axes : {NoneValue}]

\* The axis metadata a model emits for a parameter tree.
AxesFor(ps) ==
  [a \in {x \in AKeys : StripAxes(x) \in DOMAIN ps} |->
     IF a = "w_axes" THEN <<"embed", "mlp">> ELSE <<"model">>]

CreateParams == {[w |-> 0, b |-> 1], [w |-> 1]}

Collections == {EmptyMap, [batch_stats |-> 1]}

\* model_variables: 'params' (or, wrongly, none), optionally 'params_axes',
\* and other collections.
ModelVariables ==
  UNION {{([params |-> ps] @@ ax) @@ cs :
            ax \in {EmptyMap, [params_axes |-> AxesFor(ps)]},
            cs \in Collections} : ps \in CreateParams}
  \cup Collections

NewParams == {[w |-> 1, b |-> 1], [w |-> 0], EmptyMap}

Grads == {[k \in D |-> 1] : D \in SUBSET PKeys}

LearningRates == {1}

\* The flax_mutables keyword of apply_gradient: omitted, or a FrozenDict.
MutablesArg ==
  {NoneValue} \cup
  {Some(freeze(m)) : m \in {[batch_stats |-> 2], [cache |-> 1]}}

(* ----------------------------- the driver ------------------------------- *)

\* What a caller reads from an instance.
Observed(self) ==
  [step |-> step(self), params |-> params(self),
   param_states |-> param_states(self),
   flax_mutables |-> self.flax_mutables.map,
   params_axes |-> self.params_axes]

Init ==
  /\ pc = "start"
  /\ cur = NoneValue
  /\ last = [op |-> "none", ok |-> TRUE]
  /\ calls = <<>>
  /\ snap = NoneValue
  /\ proj = NoneValue

CreateFrom(defs, variables) ==
  /\ pc = "start"
  /\ \E od \in defs, mv \in variables :
       LET r == create(od, mv)
       IN /\ pc' = IF r.ok THEN "live" ELSE "failed"
          /\ cur' = IF r.ok THEN r.value ELSE NoneValue
          /\ last' = [op |-> "create", ok |-> r.ok,
                      err |-> IF r.ok THEN "" ELSE r.err,
                      args |-> [optimizer_def |-> od, model_variables |-> mv]]
          /\ calls' = r.calls
  /\ UNCHANGED <<snap, proj>>

Create == CreateFrom(OptimizerDefs, ModelVariables)

\* The fields a caller reads differently from two instances.
Changed(before, after) ==
  {f \in DOMAIN Observed(before) : Observed(before)[f] # Observed(after)[f]}

\* A call on the live instance, with its outcome r and the receiver as the
\* call left it: a returned instance replaces the driver's reference,
\* otherwise the driver goes on with the receiver. The driver reads the
\* receiver again after the call and records the fields that differ from
\* what it read before.
Called(op, r, args, replaces, receiver) ==
  /\ cur' = IF r.ok /\ replaces THEN r.value ELSE receiver
  /\ last' = [op |-> op, ok |-> r.ok, err |-> IF r.ok THEN "" ELSE r.err,
              args |-> args, changed |-> Changed(cur, receiver)]
  /\ calls' = r.calls

ApplyGradient ==
  /\ pc = "live"
  /\ step(cur) < MaxStep
  /\ \E g \in Grads, lr \in LearningRates, fm \in MutablesArg :
       Called("apply_gradient", apply_gradient(cur, g, lr, fm),
              [grads |-> g, learning_rate |-> lr, flax_mutables |-> fm,
               receiver_mutables |-> cur.flax_mutables],
              TRUE, apply_gradient_receiver(cur, g, lr, fm))
  /\ proj' = NoneValue
  /\ snap' = NoneValue
  /\ UNCHANGED pc

ReplaceParams ==
  /\ pc = "live"
  /\ \E ps \in NewParams :
       Called("replace_params", replace_params(cur, ps), [params |-> ps],
              TRUE, replace_params_receiver(cur, ps))
  /\ proj' = NoneValue
  /\ snap' = NoneValue
  /\ UNCHANGED pc

ReplaceStep ==
  /\ pc = "live"
  /\ \E n \in Steps :
       Called("replace_step", replace_step(cur, n), [step |-> n], TRUE,
              replace_step_receiver(cur, n))
  /\ proj' = NoneValue
  /\ snap' = NoneValue
  /\ UNCHANGED pc

\* The driver takes a snapshot and keeps the returned mapping.
StateDict ==
  /\ pc = "live"
  /\ snap' = [present |-> TRUE, value |-> state_dict(cur), writes |-> 0]
  /\ Called("state_dict", Return(cur, <<"state_dict">>), [none |-> TRUE],
            FALSE, state_dict_receiver(cur))
  /\ proj' = NoneValue
  /\ UNCHANGED pc

RestoreState ==
  /\ pc = "live"
  /\ snap.present
  /\ Called("restore_state", restore_state(cur, snap.value),
            [state_dict |-> snap.value,
             receiver_mutables |-> cur.flax_mutables], TRUE,
            restore_state_receiver(cur, snap.value))
  /\ proj' = NoneValue
  /\ UNCHANGED <<pc, snap>>

AsLogicalAxes ==
  /\ pc = "live"
  /\ LET r == as_logical_axes(cur)
     IN /\ Called("as_logical_axes", r, [none |-> TRUE], FALSE,
               as_logical_axes_receiver(cur))
        /\ proj' = IF r.ok THEN r.value ELSE NoneValue
  /\ UNCHANGED <<pc, snap>>

ToLogicalAxes ==
  /\ pc = "live"
  /\ LET r == to_logical_axes(cur)
     IN /\ Called("to_logical_axes", r, [none |-> TRUE], FALSE,
               to_logical_axes_receiver(cur))
        /\ proj' = r.value
  /\ UNCHANGED <<pc, snap>>

\* A plain dict held by an instance is the dict inside the caller's
\* snapshot: a write to that dict shows through every reference to it.
WriteThrough(self, m) ==
  IF self.flax_mutables.frozen THEN self
  ELSE [self EXCEPT !.flax_mutables.map = m]

\* The mappings one caller write turns sd into: state.step overwritten, an
\* entry of flax_mutables set (in the dict it has, or in a new one), or a
\* top-level key deleted, state.step deleted, a leaf of target set or deleted.
Writes(sd) ==
  {[sd EXCEPT !["state"]["step"] = n] :
     n \in IF "state" \in DOMAIN sd THEN Steps ELSE {}}
  \cup {[sd EXCEPT !["flax_mutables"] = (k :> 2) @@ @] :
          k \in IF "flax_mutables" \in DOMAIN sd THEN MKeys ELSE {}}
  \cup {sd @@ [flax_mutables |-> (k :> 2)] :
          k \in IF "flax_mutables" \in DOMAIN sd THEN {} ELSE MKeys}
  \cup {[x \in (DOMAIN sd) \ {key} |-> sd[x]] :
          key \in (DOMAIN sd) \ {"state"}}
  \cup {[sd EXCEPT !["state"] = [x \in (DOMAIN @) \ {"step"} |-> @[x]]] :
          n \in IF "state" \in DOMAIN sd THEN {0} ELSE {}}
  \cup {[sd EXCEPT !["target"] = (k :> 0) @@ @] :
          k \in IF "target" \in DOMAIN sd THEN PKeys ELSE {}}
  \cup {[sd EXCEPT !["target"] = [x \in (DOMAIN @) \ {k} |-> @[x]]] :
          k \in IF "target" \in DOMAIN sd THEN DOMAIN sd["target"] ELSE {}}

\* The caller writes to the mapping state_dict() returned.
MutateSnapshot ==
  /\ pc = "live"
  /\ snap.present
  /\ snap.writes < MaxWrites
  /\ \E sd \in Writes(snap.value) :
       /\ sd # snap.value
       /\ snap' = [present |-> TRUE, value |-> sd,
                   writes |-> snap.writes + 1]
       /\ cur' = IF "flax_mutables" \in DOMAIN snap.value
                    /\ "flax_mutables" \in DOMAIN sd
                 THEN WriteThrough(cur, sd["flax_mutables"])
                 ELSE cur
       /\ last' = [op |-> "mutate_snapshot", ok |-> TRUE, err |-> "",
                   args |-> [state_dict |-> sd]]
  /\ calls' = <<>>
  /\ proj' = NoneValue
  /\ UNCHANGED pc

\* The driver and its operations, over every optimizer definition and
\* model_variables of the input sets; snapshots are restored as taken.
Next ==
  \/ Create
  \/ ApplyGradient
  \/ ReplaceParams
  \/ ReplaceStep
  \/ StateDict
  \/ RestoreState
  \/ AsLogicalAxes
  \/ ToLogicalAxes

Spec == Init /\ [][Next]_vars

\* The same driver with a caller that also writes to the snapshots it
\* holds, over two constructions: an optimizer definition with both
\* capabilities on a model that emits axes, and one with neither on a model
\* that emits none.
CreateForCaller ==
  CreateFrom(
    {[set_param_axes |-> b, derive_logical_axes |-> b,
      param_axes |-> NoneValue] : b \in BOOLEAN},
    {[params |-> [w |-> 0, b |-> 1],
      params_axes |-> AxesFor([w |-> 0, b |-> 1]), batch_stats |-> 1],
     [params |-> [w |-> 1]]})

NextCaller ==
  \/ CreateForCaller
  \/ ApplyGradient
  \/ ReplaceParams
  \/ ReplaceStep
  \/ StateDict
  \/ RestoreState
  \/ AsLogicalAxes
  \/ ToLogicalAxes
  \/ MutateSnapshot

SpecCaller == Init /\ [][NextCaller]_vars

(* ------------------------------ claims --------------------------------- *)

\* The serialized fields of an instance: axis metadata is not among them.
Ser(self) ==
  [step |-> step(self), params |-> params(self),
   param_states |-> param_states(self),
   flax_mutables |-> self.flax_mutables.map]

KeysEq(self) == DOMAIN params(self) = DOMAIN param_states(self)

Replacing == {"apply_gradient", "replace_params", "replace_step",
              "restore_state"}

\* C1: in every reachable state, restoring the live instance from its own
\* state_dict() succeeds and yields the same step, params, param_states and
\* flax_mutables.
C1_RoundTrip ==
  pc = "live" =>
    LET r == restore_state(cur, state_dict(cur))
    IN r.ok /\ Ser(r.value) = Ser(cur)

\* The driver has restored an unwritten snapshot of an instance with
\* non-empty flax_mutables, steps taken, and params no longer shaped like
\* param_states.
C1_Witness ==
  /\ pc = "live"
  /\ last.op = "restore_state" /\ last.ok
  /\ snap.present /\ snap.writes = 0
  /\ Truthy(cur.flax_mutables)
  /\ step(cur) > 0
  /\ ~KeysEq(cur)

\* C2: a successful apply_gradient returns an instance whose step is the
\* receiver's plus one, and calls the optimizer's apply_gradient once.
C2_StepIncrement ==
  [][(last'.op = "apply_gradient" /\ last'.ok)
       => (step(cur') = step(cur) + 1 /\ calls' = <<"apply_gradient">>)]_vars

C2_Witness ==
  /\ pc = "live"
  /\ last.op = "apply_gradient" /\ last.ok
  /\ step(cur) = MaxStep

\* C3: after a successful apply_gradient the instance's flax_mutables is
\* exactly the flax_mutables argument, and empty when it was omitted.
C3_MutablesReplaced ==
  (pc = "live" /\ last.op = "apply_gradient" /\ last.ok) =>
    cur.flax_mutables = (IF last.args.flax_mutables.present
                         THEN last.args.flax_mutables.value
                         ELSE EMPTY_DICT)

\* apply_gradient was given {cache: 1} on a receiver holding batch_stats.
C3_Witness ==
  /\ pc = "live"
  /\ last.op = "apply_gradient" /\ last.ok
  /\ last.args.flax_mutables.present
  /\ last.args.flax_mutables.value.map = [cache |-> 1]
  /\ "batch_stats" \in DOMAIN last.args.receiver_mutables.map

\* C4: no step of the driver after create changes params_axes.
C4_AxesImmutable ==
  [][pc = "live" => cur'.params_axes = cur.params_axes]_vars

\* An instance with axis metadata after steps and a restore_state.
C4_Witness ==
  /\ pc = "live"
  /\ last.op = "restore_state" /\ last.ok
  /\ cur.params_axes.present
  /\ step(cur) > 0

\* C5: create with an optimizer definition that has set_param_axes, on
\* model_variables with 'params' and without 'params_axes', raises the
\* missing-axes ValueError, leaves no instance, and has called neither
\* set_param_axes nor create on the definition.
C5_MissingAxes ==
  (/\ last.op = "create"
   /\ last.args.optimizer_def.set_param_axes
   /\ "params" \in DOMAIN last.args.model_variables
   /\ "params_axes" \notin DOMAIN last.args.model_variables)
  => (/\ ~last.ok
      /\ last.err = "ValueError"
      /\ pc = "failed"
      /\ cur = NoneValue
      /\ calls = <<>>)

C5_Witness ==
  /\ last.op = "create"
  /\ ~last.ok
  /\ last.err = "ValueError"
  /\ "batch_stats" \in DOMAIN last.args.model_variables

\* C6 as stated: in every reachable state the key-set of params equals the
\* key-set of param_states.
C6_KeysAlwaysEqual == pc = "live" => KeysEq(cur)

\* C6 amended: create establishes the equality of the two key-sets, and
\* every step keeps it except a replace_params whose argument has another
\* key-set than the receiver's params.
C6_KeysPreserved ==
  [][(/\ pc' = "live"
      /\ pc = "live" => KeysEq(cur)
      /\ ~(/\ last'.op = "replace_params"
           /\ DOMAIN last'.args.params # DOMAIN params(cur)))
       => KeysEq(cur')]_vars

\* A restore from a snapshot whose target the caller gave another key, on
\* an instance that has taken steps: the key-sets are still equal.
C6_Witness ==
  /\ pc = "live"
  /\ last.op = "restore_state" /\ last.ok
  /\ DOMAIN last.args.state_dict["target"] # DOMAIN params(cur)
  /\ KeysEq(cur)

\* C7 as stated: on an instance created with axis metadata and an optimizer
\* definition with both capabilities, to_logical_axes() returns an instance
\* whose params and param_states are the axis names of params_axes.
C7_ToLogicalAxes ==
  (/\ pc = "live"
   /\ last.op = "to_logical_axes"
   /\ cur.params_axes.present
   /\ cur.optimizer.optimizer_def.set_param_axes
   /\ cur.optimizer.optimizer_def.derive_logical_axes)
  => (/\ proj.present
      /\ params(proj.value) = get_axis_names(cur.params_axes.value)
      /\ param_states(proj.value) = get_axis_names(cur.params_axes.value))

\* C8: replace_step(n) succeeds, returns an instance with step n and the
\* receiver's params, param_states, flax_mutables and params_axes, and that
\* instance is restore_state of the receiver's state_dict() with state.step
\* overwritten.
C8_ReplaceStep ==
  [][last'.op = "replace_step"
       => (/\ last'.ok
           /\ step(cur') = last'.args.step
           /\ params(cur') = params(cur)
           /\ param_states(cur') = param_states(cur)
           /\ cur'.flax_mutables = cur.flax_mutables
           /\ cur'.params_axes = cur.params_axes
           /\ cur' = restore_state(
                       cur,
                       [state_dict(cur) EXCEPT
                          !["state"]["step"] = last'.args.step]).value)]_vars

\* replace_step to another step on an instance with flax_mutables and axes.
C8_Witness ==
  /\ pc = "live"
  /\ last.op = "replace_step" /\ last.ok
  /\ step(cur) = 0
  /\ param_states(cur) # [k \in DOMAIN param_states(cur) |-> 0]
  /\ Truthy(cur.flax_mutables)
  /\ cur.params_axes.present

\* C9: replace_params(new_params) never fails; the result has params equal
\* to new_params and the receiver's step, param_states, flax_mutables and
\* params_axes.
C9_ReplaceParams ==
  [][last'.op = "replace_params"
       => (/\ last'.ok
           /\ params(cur') = last'.args.params
           /\ step(cur') = step(cur)
           /\ param_states(cur') = param_states(cur)
           /\ cur'.flax_mutables = cur.flax_mutables
           /\ cur'.params_axes = cur.params_axes)]_vars

\* replace_params with a tree shaped unlike param_states went through.
C9_Witness ==
  /\ pc = "live"
  /\ last.op = "replace_params" /\ last.ok
  /\ ~KeysEq(cur)
  /\ step(cur) > 0

Methods == Replacing \cup {"state_dict", "as_logical_axes",
                            "to_logical_axes"}

C11_AxesOnlyIfSupported ==
  (pc = "live" /\ last.op = "create" /\ last.ok) =>
    (cur.params_axes.present => last.args.optimizer_def.set_param_axes)

\* C11 amended: a created instance has params_axes exactly when
\* model_variables held a 'params_axes' collection, whatever the optimizer
\* definition declares; with set_param_axes declared a created instance
\* always has it.
C11_AxesPresence ==
  (pc = "live" /\ last.op = "create" /\ last.ok) =>
    /\ cur.params_axes.present =
         ("params_axes" \in DOMAIN last.args.model_variables)
    /\ last.args.optimizer_def.set_param_axes => cur.params_axes.present

\* Created from a model that emits axes with an optimizer definition that
\* has no set_param_axes: the axes are there.
C11_Witness ==
  /\ pc = "live"
  /\ last.op = "create" /\ last.ok
  /\ ~last.args.optimizer_def.set_param_axes
  /\ "params_axes" \in DOMAIN last.args.model_variables
  /\ cur.params_axes.present

\* C12: restore_state with a snapshot that lacks the parameter tree
\* ('target') or the step fails (KeyError for the tree, ValueError for the
\* step), returns no instance, and leaves the receiver as it was and usable:
\* the session stays live and the receiver still takes its own snapshot back.
C12_InvalidSnapshot ==
  [][(last'.op = "restore_state"
      /\ snap.present
      /\ ("target" \notin DOMAIN snap.value
          \/ "step" \notin DOMAIN snap.value["state"]))
     => (/\ ~last'.ok
         /\ last'.err = (IF "target" \notin DOMAIN snap.value
                         THEN "KeyError" ELSE "ValueError")
         /\ cur' = cur
         /\ proj' = NoneValue
         /\ pc' = "live"
         /\ restore_state(cur', state_dict(cur')).ok)]_vars

\* A receiver that has taken a step and holds mutables was handed a snapshot
\* without its parameter tree.
C12_Witness ==
  /\ pc = "live"
  /\ last.op = "restore_state" /\ ~last.ok
  /\ "target" \notin DOMAIN last.args.state_dict
  /\ step(cur) > 0
  /\ Truthy(cur.flax_mutables)

\* C13: a successful restore_state takes flax_mutables from the snapshot
\* alone: the value under 'flax_mutables' when the key is there, the empty
\* mapping when it is not, whatever the receiver held.
C13_MutablesDefault ==
  (pc = "live" /\ last.op = "restore_state" /\ last.ok) =>
    cur.flax_mutables =
      (IF "flax_mutables" \in DOMAIN last.args.state_dict
       THEN freeze(last.args.state_dict["flax_mutables"])
       ELSE EMPTY_DICT)

\* A receiver with non-empty mutables restored from a snapshot that has no
\* 'flax_mutables' key.
C13_Witness ==
  /\ pc = "live"
  /\ last.op = "restore_state" /\ last.ok
  /\ "flax_mutables" \notin DOMAIN last.args.state_dict
  /\ Truthy(last.args.receiver_mutables)
  /\ cur.flax_mutables = EMPTY_DICT

\* C14: as_logical_axes on an instance whose optimizer definition has no
\* derive_logical_axes fails with ValueError, calls no derivation, returns
\* nothing and leaves the instance as it was and usable: the session stays
\* live, state_dict gives the same snapshot and restore_state takes it.
C14_UnsupportedAxes ==
  [][(last'.op = "as_logical_axes"
      /\ pc = "live"
      /\ ~cur.optimizer.optimizer_def.derive_logical_axes)
     => (/\ ~last'.ok
         /\ last'.err = "ValueError"
         /\ calls' = <<>>
         /\ proj' = NoneValue
         /\ cur' = cur
         /\ pc' = "live"
         /\ state_dict(cur') = state_dict(cur)
         /\ restore_state(cur', state_dict(cur')).ok)]_vars

\* The projection was refused for an instance that has axis metadata and
\* has taken a step.
C14_Witness ==
  /\ pc = "live"
  /\ last.op = "as_logical_axes" /\ ~last.ok
  /\ last.err = "ValueError"
  /\ ~cur.optimizer.optimizer_def.derive_logical_axes
  /\ cur.params_axes.present
  /\ step(cur) > 0

\* C15: the step moves only by +1 at a successful apply_gradient, or to the
\* supplied value at replace_step and at a successful restore_state (the
\* snapshot's step); replace_params, state_dict, the axis projections and
\* every failed call leave it as it was. By induction n successful
\* apply_gradient calls with no replace_step or restore_state between them
\* add n to the step.
C15_StepChanges ==
  [][pc = "live" =>
       step(cur') =
         (IF last'.op = "apply_gradient" /\ last'.ok
          THEN step(cur) + 1
          ELSE IF last'.op = "replace_step"
          THEN last'.args.step
          ELSE IF last'.op = "restore_state" /\ last'.ok
          THEN last'.args.state_dict["state"]["step"]
          ELSE step(cur))]_vars

\* A restore from a snapshot whose step the caller rewrote took the
\* instance, after gradient steps, to the written step.
C15_Witness ==
  /\ pc = "live"
  /\ last.op = "restore_state" /\ last.ok
  /\ snap.present /\ snap.writes > 0
  /\ step(cur) = MaxStep
  /\ \E k \in DOMAIN param_states(cur) : param_states(cur)[k] = 1

\* C16: a successful create splits model_variables three ways: params is the
\* 'params' collection, params_axes is the 'params_axes' collection when
\* there is one and absent otherwise, and flax_mutables holds exactly the
\* other collections, each with its value.
C16_Partition ==
  (pc = "live" /\ last.op = "create" /\ last.ok) =>
    LET mv == last.args.model_variables
    IN /\ params(cur) = mv["params"]
       /\ cur.params_axes = (IF "params_axes" \in DOMAIN mv
                             THEN Some(mv["params_axes"])
                             ELSE NoneValue)
       /\ cur.flax_mutables.frozen
       /\ cur.flax_mutables.map =
            [k \in (DOMAIN mv) \ {"params", "params_axes"} |-> mv[k]]

\* Created from model variables that hold all three kinds of collection.
C16_Witness ==
  /\ pc = "live"
  /\ last.op = "create" /\ last.ok
  /\ {"params", "params_axes", "batch_stats"}
       \subseteq DOMAIN last.args.model_variables
  /\ DOMAIN cur.flax_mutables.map = {"batch_stats"}

\* C17: a successful create with an optimizer definition that has
\* set_param_axes calls set_param_axes once, with the axis names decoded
\* from params_axes, and then optimizer_def.create(params) once, so the
\* optimizer is built from the definition with the names installed; without
\* set_param_axes it calls only optimizer_def.create(params), once, and no
\* names are installed.
C17_CreateOrder ==
  (pc = "live" /\ last.op = "create" /\ last.ok) =>
    LET mv == last.args.model_variables
        od == last.args.optimizer_def
    IN IF od.set_param_axes
       THEN /\ calls = <<"set_param_axes", "create">>
            /\ cur.optimizer.optimizer_def.param_axes =
                 Some(get_axis_names(mv["params_axes"]))
            /\ cur.optimizer = OptimizerDef_create(
                                 cur.optimizer.optimizer_def, mv["params"])
       ELSE /\ calls = <<"create">>
            /\ cur.optimizer.optimizer_def = od
            /\ cur.optimizer = OptimizerDef_create(od, mv["params"])

\* Created with an optimizer definition that has set_param_axes, from a
\* model with two parameters and their axes.
C17_Witness ==
  /\ pc = "live"
  /\ last.op = "create" /\ last.ok
  /\ last.args.optimizer_def.set_param_axes
  /\ calls = <<"set_param_axes", "create">>
  /\ cur.optimizer.optimizer_def.param_axes.present
  /\ DOMAIN cur.optimizer.optimizer_def.param_axes.value = {"w", "b"}

\* C18: the mapping state_dict returns is the optimizer's state dict
\* ('target' and 'state') plus a 'flax_mutables' entry, holding the
\* instance's mutables, exactly when they are non-empty; with empty mutables
\* the key is left out. There is never a 'params_axes' key.
C18_SnapshotLayout ==
  (pc = "live" /\ last.op = "state_dict") =>
    /\ snap.present
    /\ LET sd == snap.value
           keys == IF DOMAIN cur.flax_mutables.map # {}
                   THEN {"target", "state", "flax_mutables"}
                   ELSE {"target", "state"}
       IN /\ DOMAIN sd = keys
          /\ [k \in {"target", "state"} |-> sd[k]]
               = Optimizer_state_dict(cur.optimizer)
          /\ ("flax_mutables" \in DOMAIN sd
                => sd["flax_mutables"] = cur.flax_mutables.map)
          /\ "params_axes" \notin DOMAIN sd

\* A snapshot of an instance with axis metadata and no mutables, after a
\* gradient step: two keys only.
C18_Witness ==
  /\ pc = "live"
  /\ last.op = "state_dict"
  /\ snap.present
  /\ cur.params_axes.present
  /\ cur.flax_mutables = EMPTY_DICT
  /\ step(cur) > 0
  /\ DOMAIN snap.value = {"target", "state"}

\* C19: when as_logical_axes succeeds the instance it returns has no
\* params_axes and empty flax_mutables, whatever the receiver holds, and its
\* optimizer is derive_logical_axes applied to the receiver's optimizer and
\* the axis names decoded from the receiver's params_axes; the receiver is
\* left as it was.
C19_ProjectionDrops ==
  [][(last'.op = "as_logical_axes" /\ last'.ok) =>
       /\ proj'.present
       /\ proj'.value.params_axes = NoneValue
       /\ proj'.value.flax_mutables = EMPTY_DICT
       /\ proj'.value.optimizer =
            OptimizerDef_derive_logical_axes(
              cur.optimizer, get_axis_names(cur.params_axes.value))
       /\ calls' = <<"derive_logical_axes">>
       /\ cur' = cur]_vars

\* A projection of an instance that holds mutables and axis metadata.
C19_Witness ==
  /\ pc = "live"
  /\ last.op = "as_logical_axes" /\ last.ok
  /\ proj.present
  /\ cur.params_axes.present
  /\ Truthy(cur.flax_mutables)
  /\ proj.value.flax_mutables = EMPTY_DICT
  /\ ~proj.value.params_axes.present

====
